---- MODULE Spec2Model ----
(***************************************************************************)
(* Model of ModeloTiticaca (src/core/modelo.py): the lake state vector,    *)
(* the rate equations, the integration driver simular() and the metrics /  *)
(* state-control operations.                                               *)
(*                                                                         *)
(* Floats are modelled in fixed point, every quantity as an integer number *)
(* of the unit below; divisions round down.                                *)
(*   volumen                      1e8 m3                                   *)
(*   nutrientes, nutrientes_optimo_lemna, km_absorcion_lemna  1e-5 mg/L    *)
(*   lemna, capacidad_carga_lemna, remocion_mecanica_lemna    ton          *)
(*   oxigeno, oxigeno_saturacion  0.01 mg/L                                *)
(*   area_lago                    1e8 m2                                   *)
(*   precipitacion_anual, evaporacion_anual   0.01 m/yr                    *)
(*   flujo_rios, extraccion_humana            1e8 m3/yr                    *)
(*   descarga_puno, descarga_juliaca, descarga_otras   ton/yr              *)
(*   eficiencia_tratamiento_*     percent (0.95 is 95)                     *)
(*   tasa_crecimiento_lemna, tasa_mortalidad_lemna     0.001 /yr           *)
(*   tasa_absorcion_nutrientes_lemna          1e-8                         *)
(*   tasa_sedimentacion_nutrientes, consumo_o2_descomposicion  0.01        *)
(*   tasa_reoxigenacion           0.1 /yr                                  *)
(*   tiempo_simulacion, paso_tiempo           0.1 yr                       *)
(*   occupancy fractions (pct)    1e-4 ; other dimensionless factors 1e-3  *)
(* The two IEEE specials a caller can inject are the values FInf and FNaN, *)
(* outside the finite range.                                               *)
(***************************************************************************)
EXTENDS Integers, Sequences, FiniteSets, TLC

\* ---------------------------------------------------------------- bounds
\* Largest magnitude of a finite float of the model.
FMax == 1000000000
\* Internal steps of the integrator per year.
PasosPorAnio == 10
\* Largest number of simular() calls on the instance.
MaxSim == 2
\* Largest number of state-control calls (remove, add, reset) on the instance.
MaxMut == 2

\* ------------------------------------------------------- float encoding
FInf == FMax + 1
FNegInf == 0 - (FMax + 1)
FNaN == 0 - (FMax + 2)

EsFinito(x) == x # FInf /\ x # FNegInf /\ x # FNaN

\* float addition (self.estado_actual[2] += cantidad)
FSuma(a, b) ==
    IF a = FNaN \/ b = FNaN THEN FNaN
    ELSE IF (a = FInf /\ b = FNegInf) \/ (a = FNegInf /\ b = FInf) THEN FNaN
    ELSE IF a = FInf \/ b = FInf THEN FInf
    ELSE IF a = FNegInf \/ b = FNegInf THEN FNegInf
    ELSE a + b

\* float comparison a <= b (every comparison with NaN is false)
FMenorIgual(a, b) ==
    IF a = FNaN \/ b = FNaN THEN FALSE
    ELSE a <= b

Max(a, b) == IF a >= b THEN a ELSE b
Min(a, b) == IF a <= b THEN a ELSE b

\* dict.get(k, default)
Get(d, k, def) == IF k \in DOMAIN d THEN d[k] ELSE def

\* dict.update(e) on a copy of d
Update(d, e) == [k \in (DOMAIN d) \cup (DOMAIN e) |-> IF k \in DOMAIN e THEN e[k] ELSE d[k]]

\* dict.setdefault(k, v)
SetDefault(d, k, v) == IF k \in DOMAIN d THEN d ELSE Update(d, [x \in {k} |-> v])

\* ------------------------------------------------------- configuration
PARAMETROS_DEFAULT ==
    [ volumen_inicial |-> 8930, nutrientes_inicial |-> 3000,
      lemna_inicial |-> 300, oxigeno_inicial |-> 800,
      area_lago |-> 84, precipitacion_anual |-> 75, evaporacion_anual |-> 155,
      flujo_rios |-> 65, extraccion_humana |-> 2,
      descarga_puno |-> 12, descarga_juliaca |-> 20, descarga_otras |-> 10,
      tasa_crecimiento_lemna |-> 1200, tasa_mortalidad_lemna |-> 1000,
      nutrientes_optimo_lemna |-> 10000, capacidad_carga_lemna |-> 2000,
      tasa_reoxigenacion |-> 50, oxigeno_saturacion |-> 850,
      consumo_o2_descomposicion |-> 5,
      tiempo_simulacion |-> 200, paso_tiempo |-> 1,
      tasa_sedimentacion_nutrientes |-> 25 ]

ESCENARIOS ==
    [ base |->
        [ nombre |-> "Escenario Base",
          eficiencia_tratamiento_puno |-> 0, eficiencia_tratamiento_juliaca |-> 0,
          remocion_mecanica_lemna |-> 0, parametros |-> << >> ],
      tratamiento_50 |->
        [ nombre |-> "Tratamiento 50%",
          eficiencia_tratamiento_puno |-> 50, eficiencia_tratamiento_juliaca |-> 50,
          remocion_mecanica_lemna |-> 0, parametros |-> << >> ],
      tratamiento_80 |->
        [ nombre |-> "Tratamiento 80%",
          eficiencia_tratamiento_puno |-> 80, eficiencia_tratamiento_juliaca |-> 80,
          remocion_mecanica_lemna |-> 0, parametros |-> << >> ],
      tratamiento_95 |->
        [ nombre |-> "Tratamiento 95%",
          eficiencia_tratamiento_puno |-> 95, eficiencia_tratamiento_juliaca |-> 95,
          remocion_mecanica_lemna |-> 0, parametros |-> << >> ],
      combinado |->
        [ nombre |-> "Intervencion Combinada",
          eficiencia_tratamiento_puno |-> 95, eficiencia_tratamiento_juliaca |-> 95,
          remocion_mecanica_lemna |-> 500, parametros |-> << >> ],
      optimista |->
        [ nombre |-> "Escenario Optimista",
          eficiencia_tratamiento_puno |-> 95, eficiencia_tratamiento_juliaca |-> 95,
          remocion_mecanica_lemna |-> 1000, parametros |-> [descarga_otras |-> 5] ] ]

\* The five range checks of validar_parametros: name, minimum, maximum.
validaciones ==
    [ volumen_inicial |-> << 5000, 12000 >>,
      nutrientes_inicial |-> << 100, 50000 >>,
      lemna_inicial |-> << 0, 5000 >>,
      oxigeno_inicial |-> << 0, 1200 >>,
      tiempo_simulacion |-> << 10, 2000 >> ]

\* validar_parametros(params): TRUE when it returns True, FALSE when it
\* raises ValueError. A parameter the mapping does not hold is not checked.
validar_parametros(p) ==
    \A param \in DOMAIN validaciones :
        param \in DOMAIN p =>
            (validaciones[param][1] <= p[param] /\ p[param] <= validaciones[param][2])

\* obtener_parametros(modificaciones): the defaults updated with the
\* modifications, or the ValueError of the validation.
obtener_parametros(modificaciones) ==
    LET p == IF DOMAIN modificaciones # {}
             THEN Update(PARAMETROS_DEFAULT, modificaciones)
             ELSE PARAMETROS_DEFAULT
    IN  IF validar_parametros(p) THEN [tipo |-> "params", val |-> p]
        ELSE [tipo |-> "error", val |-> "ValueError"]

\* crear_escenario_personalizado: the descriptor, or the ValueError of its
\* three range tests. parametros_adicionales is stored as it is given.
crear_escenario_personalizado(nombre, eficiencia_puno, eficiencia_juliaca, remocion_lemna, parametros_adicionales) ==
    IF ~(0 <= eficiencia_puno /\ eficiencia_puno <= 100) THEN [error |-> "ValueError"]
    ELSE IF ~(0 <= eficiencia_juliaca /\ eficiencia_juliaca <= 100) THEN [error |-> "ValueError"]
    ELSE IF remocion_lemna < 0 THEN [error |-> "ValueError"]
    ELSE [ nombre |-> nombre,
           eficiencia_tratamiento_puno |-> eficiencia_puno,
           eficiencia_tratamiento_juliaca |-> eficiencia_juliaca,
           remocion_mecanica_lemna |-> remocion_lemna,
           parametros |-> parametros_adicionales ]

\* ------------------------------------------------------- rate equations
\* Saturation threshold 0.95, as an occupancy fraction (unit 1e-4).
UMBRAL_SATURACION == 9500

\* Volume floor of ecuaciones: max(volumen_m3, 1.0). 1 m3 is below the
\* resolution of the volume unit; the floor is the smallest positive volume.
VolumenPiso == 1

flujo_entrada_agua(p, volumen) ==
    LET precipitacion == (Get(p, "area_lago", 0) * Get(p, "precipitacion_anual", 0)) \div 100
        rios == Get(p, "flujo_rios", 0)
    IN  precipitacion + rios

flujo_salida_agua(p, volumen) ==
    LET evaporacion == (Get(p, "area_lago", 0) * Get(p, "evaporacion_anual", 0)) \div 100
        extraccion == Get(p, "extraccion_humana", 0)
    IN  evaporacion + extraccion

\* Variant: the other sources are treated too, at the efficiency of Puno.
descarga_contaminantes_otras_tratadas(p, e) ==
    LET eff_puno == Get(e, "eficiencia_tratamiento_puno", 0)
        eff_juliaca == Get(e, "eficiencia_tratamiento_juliaca", 0)
        descarga_puno == Get(p, "descarga_puno", 0) * (100 - eff_puno)
        descarga_juliaca == Get(p, "descarga_juliaca", 0) * (100 - eff_juliaca)
        descarga_otras == Get(p, "descarga_otras", 0) * (100 - eff_puno)
    IN  Max(0, descarga_puno + descarga_juliaca + descarga_otras)

\* Effective phosphorus load, in 0.01 ton/yr.
descarga_contaminantes(p, e) ==
    LET eff_puno == Get(e, "eficiencia_tratamiento_puno", 0)
        eff_juliaca == Get(e, "eficiencia_tratamiento_juliaca", 0)
        descarga_puno == Get(p, "descarga_puno", 0) * (100 - eff_puno)
        descarga_juliaca == Get(p, "descarga_juliaca", 0) * (100 - eff_juliaca)
        descarga_otras == Get(p, "descarga_otras", 0) * 100
    IN  Max(0, descarga_puno + descarga_juliaca + descarga_otras)

\* Occupancy of the carrying capacity, unit 1e-4 (can exceed 10000).
calcular_porcentaje_capacidad(p, lemna_ton) ==
    LET capacidad == Get(p, "capacidad_carga_lemna", 2000)
    IN  IF capacidad <= 0 THEN 0 ELSE (lemna_ton * 10000) \div capacidad

crecimiento_lemna(p, nutrientes_mgL, lemna_ton) ==
    IF lemna_ton <= 0 THEN 0
    ELSE
      LET Km == Get(p, "nutrientes_optimo_lemna", 5000)
          factor_nutrientes == (nutrientes_mgL * 1000) \div (nutrientes_mgL + Km)
          K == Max(Get(p, "capacidad_carga_lemna", 2000), 1)
          factor_capacidad == Max(0, 1000 - (lemna_ton * 1000) \div K)
          tasa_crecimiento == Get(p, "tasa_crecimiento_lemna", 300)
          tasa_mortalidad_base == Get(p, "tasa_mortalidad_lemna", 200)
          tasa_mortalidad == (tasa_mortalidad_base * (1000 - factor_nutrientes)) \div 1000
          tasa_neta == ((((tasa_crecimiento * factor_nutrientes) \div 1000) * factor_capacidad) \div 1000)
                       - tasa_mortalidad
          crecimiento_neto == (lemna_ton * tasa_neta) \div 1000
      IN  Max(crecimiento_neto, 0 - lemna_ton)

\* Variant: uptake with no saturation rule, the biomass absorbing at any
\* occupancy.
consumo_nutrientes_lemna_sin_umbral(p, nutrientes_mgL, lemna_ton, volumen_m3) ==
    IF lemna_ton <= 1 THEN 0
    ELSE IF nutrientes_mgL <= 0 \/ volumen_m3 <= 0 THEN 0
    ELSE
      LET tasa_abs == Get(p, "tasa_absorcion_nutrientes_lemna", 100)
          Km == Get(p, "km_absorcion_lemna", 2000)
          factor_saturacion == (nutrientes_mgL * 1000) \div (nutrientes_mgL + Km)
          absorcion == (tasa_abs * factor_saturacion) \div 1000
          consumo == (absorcion * lemna_ton) \div (100000 * volumen_m3)
      IN  Max(0, Min(consumo, nutrientes_mgL \div 10))

consumo_nutrientes_lemna(p, nutrientes_mgL, lemna_ton, volumen_m3) ==
    IF lemna_ton <= 1 THEN 0
    ELSE IF nutrientes_mgL <= 0 \/ volumen_m3 <= 0 THEN 0
    ELSE
      LET pct == calcular_porcentaje_capacidad(p, lemna_ton)
      IN  IF pct >= UMBRAL_SATURACION THEN 0
          ELSE
            LET tasa_abs == Get(p, "tasa_absorcion_nutrientes_lemna", 100)
                Km == Get(p, "km_absorcion_lemna", 2000)
                factor_saturacion == (nutrientes_mgL * 1000) \div (nutrientes_mgL + Km)
                eficiencia_cruda ==
                    IF pct < 5000 THEN (pct * 2) \div 10
                    ELSE ((UMBRAL_SATURACION - pct) * 1000) \div (UMBRAL_SATURACION - 5000)
                factor_eficiencia == Max(0, Min(1000, eficiencia_cruda))
                absorcion == ((((tasa_abs * factor_saturacion) \div 1000) * factor_eficiencia) \div 1000)
                consumo == (absorcion * lemna_ton) \div (100000 * volumen_m3)
            IN  Max(0, Min(consumo, nutrientes_mgL \div 10))

\* The oxygen derivative of dinamica_oxigeno for an occupancy pct of the
\* carrying capacity.
dO_dt_con_ocupacion(p, oxigeno_mgL, lemna_ton, nutrientes_mgL, pct) ==
    LET O2_sat == Get(p, "oxigeno_saturacion", 850)
        tasa_reox == Get(p, "tasa_reoxigenacion", 10)
        reox_natural == (tasa_reox * (O2_sat - oxigeno_mgL)) \div 10
        dO_dt ==
          IF pct < UMBRAL_SATURACION
          THEN LET produccion_o2 == (5 * ((lemna_ton * pct) \div UMBRAL_SATURACION))
                   consumo_respiracion == lemna_ton \div 10
               IN  reox_natural + produccion_o2 - consumo_respiracion
          ELSE LET factor_bloqueo == Min(((pct - UMBRAL_SATURACION) * 1000) \div 500, 1000)
                   reox_reducida == (reox_natural * (1000 - (factor_bloqueo * 9) \div 10)) \div 1000
                   consumo_alto == lemna_ton
                   produccion_o2 == 0
               IN  reox_reducida + produccion_o2 - consumo_alto
        consumo_descomp == (Get(p, "consumo_o2_descomposicion", 2) * nutrientes_mgL) \div 100000
    IN  dO_dt - consumo_descomp

dinamica_oxigeno(p, oxigeno_mgL, lemna_ton, nutrientes_mgL) ==
    dO_dt_con_ocupacion(p, oxigeno_mgL, lemna_ton, nutrientes_mgL,
                        calcular_porcentaje_capacidad(p, lemna_ton))

\* The four derivatives per year, for a finite state y = <<V, N, L, O>>.
ecuaciones(p, e, y) ==
    LET volumen_m3 == Max(y[1], VolumenPiso)
        nutrientes_mgL == Max(y[2], 0)
        lemna_ton == Max(y[3], 0)
        oxigeno_mgL == Max(y[4], 0)
        dV_dt == flujo_entrada_agua(p, volumen_m3) - flujo_salida_agua(p, volumen_m3)
        carga_mass == descarga_contaminantes(p, e)
        carga_conc == (carga_mass * 10) \div volumen_m3
        consumo_lemna == consumo_nutrientes_lemna(p, nutrientes_mgL, lemna_ton, volumen_m3)
        sedimentacion == (Get(p, "tasa_sedimentacion_nutrientes", 2) * nutrientes_mgL) \div 100
        dilucion == IF volumen_m3 > 0 THEN 0 - ((nutrientes_mgL * dV_dt) \div volumen_m3) ELSE 0
        dN_dt == carga_conc - consumo_lemna - sedimentacion + dilucion
        crecimiento == crecimiento_lemna(p, nutrientes_mgL, lemna_ton)
        remocion == Max(0, Get(e, "remocion_mecanica_lemna", 0))
        dL_dt == IF remocion > 0
                 THEN crecimiento - Min(remocion, Max(lemna_ton + crecimiento, 0))
                 ELSE crecimiento
        dO_dt == dinamica_oxigeno(p, oxigeno_mgL, lemna_ton, nutrientes_mgL)
    IN  <<dV_dt, dN_dt, dL_dt, dO_dt>>

\* ------------------------------------------------------- construction
\* Variant: a value of the caller's mapping is kept over the scenario's.
fusionar_sin_sobrescribir(parametros, esc) ==
    IF "parametros" \in DOMAIN esc /\ DOMAIN esc.parametros # {}
    THEN Update(esc.parametros, parametros)
    ELSE parametros

\* self.params after the merge of the scenario's 'parametros' mapping:
\* self.params.update(self.escenario['parametros']) when it is there and not
\* empty.
fusionar(parametros, esc) ==
    IF "parametros" \in DOMAIN esc /\ DOMAIN esc.parametros # {}
    THEN Update(parametros, esc.parametros)
    ELSE parametros

\* State of the object after ModeloTiticaca.__init__(parametros, escenario).
Construir(parametros, esc) ==
    LET p0 == fusionar(parametros, esc)
        p1 == SetDefault(p0, "limite_absorcion_lemna", Get(p0, "capacidad_carga_lemna", 2000))
        lemna_inicial == Max(Get(p1, "lemna_inicial", 1), 1)
        estado == << Get(p1, "volumen_inicial", 10),
                     Get(p1, "nutrientes_inicial", 0),
                     lemna_inicial,
                     Get(p1, "oxigeno_inicial", 800) >>
        p2 == SetDefault(p1, "tasa_absorcion_nutrientes_lemna", 1)
        p3 == SetDefault(p2, "km_absorcion_lemna", 2000)
        p4 == SetDefault(p3, "tasa_sedimentacion_nutrientes", 2)
        p5 == SetDefault(p4, "tasa_reoxigenacion", 10)
        p6 == SetDefault(p5, "consumo_o2_lemna", 1)
        p7 == SetDefault(p6, "consumo_o2_descomposicion", 2)
    IN  [ params |-> p7, escenario |-> esc,
          estado_inicial |-> estado, estado_actual |-> estado,
          oxigeno_base |-> Get(p1, "oxigeno_inicial", 800) ]

\* Variant: __init__ works on the caller's mapping itself.
parametros_tras_construir_sin_copia(parametros, esc) == Construir(parametros, esc).params

\* The caller's parameter mapping once __init__ has returned: __init__ merges
\* and completes a copy of it (parametros.copy()).
parametros_tras_construir(parametros, esc) == parametros

\* Horizons and initial biomasses of the constructed instances.
Horizontes == {0, 10}
LemnasIniciales == {0, 300, 5000}

\* Parameter mappings with an output step of half a year.
ParametrosPasoMedio ==
    { Update(PARAMETROS_DEFAULT,
             [tiempo_simulacion |-> t, paso_tiempo |-> 5, lemna_inicial |-> l]) :
        t \in Horizontes, l \in LemnasIniciales }

\* Parameter mappings with other output grids: a horizon of 1.2 years at the
\* default step of 0.1, and a step of two years, longer than the horizon.
ParametrosOtraRejilla ==
    { Update(PARAMETROS_DEFAULT, [tiempo_simulacion |-> 12]),
      Update(PARAMETROS_DEFAULT, [tiempo_simulacion |-> 10, paso_tiempo |-> 20]) }

\* The parameter mappings handed to the constructor.
ParametrosEntrada == ParametrosPasoMedio \cup ParametrosOtraRejilla

\* A custom scenario whose overrides set two initial stocks to zero.
EscenarioPersonalizado ==
    crear_escenario_personalizado("Personalizado", 50, 50, 0,
        [nutrientes_inicial |-> 0, oxigeno_inicial |-> 0])

\* The scenario descriptors handed to the constructor.
EscenariosEntrada == { ESCENARIOS.base, ESCENARIOS.optimista, EscenarioPersonalizado }

\* The constructor calls ModeloTiticaca(parametros, escenario) of the model.
Construcciones ==
    ((ParametrosPasoMedio \cup ParametrosOtraRejilla) \X { ESCENARIOS.base })
        \cup ({ Update(PARAMETROS_DEFAULT, [tiempo_simulacion |-> 10, paso_tiempo |-> 5]) }
                \X { ESCENARIOS.optimista, EscenarioPersonalizado })

\* ------------------------------------------------------- state
VARIABLES
    params,          \* self.params
    escenario,       \* self.escenario
    estado_inicial,  \* self.estado_inicial  <<V, N, L, O>>
    estado_actual,   \* self.estado_actual   <<V, N, L, O>>
    oxigeno_base,    \* self.oxigeno_base
    resultado,       \* self.resultado, None or the stored result
    op,              \* the last operation called on the instance
    arg,             \* its argument
    ret,             \* what it returned or raised
    previo,          \* estado_actual when it was called
    res_previo,      \* resultado when it was called
    construido,      \* the state vector built by __init__
    op_previo,       \* the operation called before the last one
    ult_sim,         \* outcome of the most recent simular() call
    completo,        \* a simular() has succeeded since construction or the last reset
    nsim,            \* number of simular() calls so far
    nmut,            \* number of remove / add / reset calls so far
    colgado,         \* a call that never returned
    parametros,      \* the mapping the caller passed to __init__, as it is now
    parametros_dados, \* that mapping as it was when __init__ was called
    runner_parametros, \* RunnerSimulacion: self.parametros
    resultados,      \* RunnerSimulacion: self.resultados, by scenario name
    metricas,        \* RunnerSimulacion: self.metricas, by scenario name
    escenarios,      \* ejecutar_todos: the list of scenario names
    indice,          \* ejecutar_todos: position of the loop in the list
    intentos,        \* the ejecutar_escenario calls made so far, in order
    mem,             \* the objects (dicts and arrays) by address
    modelos,         \* two instances: the attributes of each, arrays and dicts by address
    actor,           \* two instances: the one the last operation was called on
    npar,            \* two instances: number of operations so far
    entregados       \* preset table: addresses of the descriptors handed out

vars == << params, escenario, estado_inicial, estado_actual, oxigeno_base, resultado,
           op, arg, ret, previo, res_previo, construido, op_previo, ult_sim, completo,
           nsim, nmut, colgado, parametros, parametros_dados,
           runner_parametros, resultados, metricas, escenarios, indice, intentos,
           mem, modelos, actor, npar, entregados >>

\* The variables of the pair of instances built from the same arguments.
varsPar == << mem, modelos, actor, npar, entregados >>

\* The variables of the RunnerSimulacion instance and of its batch loop.
varsRunner == << runner_parametros, resultados, metricas, escenarios, indice, intentos >>

None == [ninguno |-> TRUE]
SinArg == [clase |-> "ninguno", v |-> 0]

Devuelve(t, v) == [tipo |-> t, val |-> v]
Lanza(exc) == [tipo |-> "error", val |-> exc]

\* No pair of instances has been constructed.
SinPar == mem = << >> /\ modelos = << >> /\ actor = 0 /\ npar = 0 /\ entregados = << >>

\* No RunnerSimulacion has been constructed.
SinRunner ==
    /\ runner_parametros = None
    /\ resultados = << >> /\ metricas = << >>
    /\ escenarios = << >> /\ indice = 0 /\ intentos = << >>

Init ==
    \E c \in Construcciones :
        LET m == Construir(c[1], c[2])
        IN  /\ params = m.params
            /\ escenario = m.escenario
            /\ estado_inicial = m.estado_inicial
            /\ estado_actual = m.estado_actual
            /\ oxigeno_base = m.oxigeno_base
            /\ resultado = None
            /\ op = "__init__"
            /\ arg = SinArg
            /\ ret = Devuelve("none", 0)
            /\ previo = m.estado_actual
            /\ res_previo = None
            /\ construido = m.estado_inicial
            /\ op_previo = "__init__"
            /\ ult_sim = "ninguna"
            /\ completo = FALSE
            /\ nsim = 0
            /\ nmut = 0
            /\ colgado = FALSE
            /\ parametros = parametros_tras_construir(c[1], c[2])
            /\ parametros_dados = c[1]
            /\ SinRunner
            /\ SinPar

\* What every call records about itself.
Llamada(nombre, a) ==
    /\ op' = nombre
    /\ op_previo' = op
    /\ arg' = a
    /\ previo' = estado_actual
    /\ res_previo' = resultado

Fijos == UNCHANGED << params, escenario, estado_inicial, oxigeno_base, construido,
                      parametros, parametros_dados, varsRunner, varsPar >>

\* ------------------------------------------------------- integration
EstadoFinito(y) == \A i \in 1..4 : EsFinito(y[i])

\* The pairs (t_final, paso), t_final at most 1.4 years and paso at most 3
\* years (in tenths of a year), whose quotient t_final / paso is an integer in exact arithmetic and one
\* unit in the last place below it in double precision: 1.2 / 0.1 is
\* 11.999999999999998.
CocientesPorDebajo ==
    { << 3, 1 >>, << 6, 1 >>, << 6, 2 >>, << 7, 1 >>, << 12, 1 >>, << 12, 2 >>,
      << 12, 4 >>, << 14, 1 >>, << 14, 2 >> }

\* int(t_final / paso): the double quotient, truncated.
int_division(t_final, paso) ==
    IF << t_final, paso >> \in CocientesPorDebajo
    THEN (t_final \div paso) - 1
    ELSE t_final \div paso

\* num_pasos = int(t_final / paso) + 1
num_pasos(t_final, paso) == int_division(t_final, paso) + 1

\* The integrator advances in internal steps of 1/PasosPorAnio year and
\* carries the state at PasosPorAnio times the resolution of the samples,
\* so that one internal step adds the derivative itself.
Sumar(z, f) == [i \in 1..4 |-> z[i] + f[i]]
Reducir(z) == [i \in 1..4 |-> z[i] \div PasosPorAnio]

RECURSIVE Avanzar(_, _, _, _)
Avanzar(p, e, z, m) ==
    IF m <= 0 THEN z
    ELSE Avanzar(p, e, Sumar(z, ecuaciones(p, e, Reducir(z))), m - 1)

\* The internal states at the first k of the n points of t_eval.
RECURSIVE Rejilla(_, _, _, _, _, _)
Rejilla(p, e, y, t_final, n, k) ==
    IF k = 1 THEN << [i \in 1..4 |-> y[i] * PasosPorAnio] >>
    ELSE LET ant == Rejilla(p, e, y, t_final, n, k - 1)
             m == (t_final * PasosPorAnio) \div (10 * (n - 1))
         IN  Append(ant, Avanzar(p, e, ant[k - 1], m))

\* solucion.y on success: the samples at the n points of t_eval, the first
\* of them y0.
Muestras(p, e, y, t_final, n, k) ==
    LET zs == Rejilla(p, e, y, t_final, n, k)
    IN  [j \in 1..k |-> Reducir(zs[j])]

\* solucion.t: np.linspace(0.0, t_final, num_pasos)
t_eval(t_final, n) ==
    IF n = 1 THEN << 0 >>
    ELSE [i \in 1..n |-> ((i - 1) * t_final) \div (n - 1)]

Columna(ys, c) == [i \in 1..Len(ys) |-> ys[i][c]]

Resultado(ts, ys, e) ==
    [ tiempo |-> ts,
      volumen |-> Columna(ys, 1),
      nutrientes |-> Columna(ys, 2),
      lemna |-> Columna(ys, 3),
      oxigeno |-> Columna(ys, 4),
      escenario |-> Get(e, "nombre", "default"),
      exito |-> TRUE ]

\* ------------------------------------------------------- operations
\* Variant: the final sample is never copied into estado_actual.
estado_tras_integrar_sin_copia(exito, y, ys) == y

\* self.estado_actual after the solve_ivp call: the last sample on success;
\* on failure the raise comes before the assignment.
estado_tras_integrar(exito, y, ys) ==
    IF exito THEN ys[Len(ys)] ELSE y

\* Variant: the result is stored before the success check.
resultado_tras_integrar_antes_del_control(exito, anterior, nuevo) == nuevo

\* self.resultado after the solve_ivp call: written only past the success check.
resultado_tras_integrar(exito, anterior, nuevo) ==
    IF exito THEN nuevo ELSE anterior

\* The verdict of the integrator, as the input of a simular() call.
VeredictoSolver(exito) == [clase |-> "solucion.success", v |-> IF exito THEN 1 ELSE 0]

\* Variant: the zero-horizon result is laid on a two-point grid.
resultado_horizonte_cero_en_rejilla(y, e) == Resultado(<< 0, 0 >>, << y, y >>, e)

\* self.resultado of the branch t_final <= 0.0: one sample at time 0.0 holding
\* the four components of estado_actual, 'exito' True.
resultado_horizonte_cero(y, e) == Resultado(<< 0 >>, << y >>, e)

\* simular(). exito is solucion.success, the integrator's own verdict.
\* paso_tiempo is positive in every instance of the model.
simular(exito) ==
    LET t_final == Get(params, "tiempo_simulacion", 200)
        paso == Get(params, "paso_tiempo", 1)
        n == num_pasos(t_final, paso)
        cero == resultado_horizonte_cero(estado_actual, escenario)
    IN  /\ ~colgado
        /\ nsim < MaxSim
        /\ nsim' = nsim + 1
        /\ Llamada("simular", IF t_final <= 0 THEN SinArg ELSE VeredictoSolver(exito))
        /\ Fijos
        /\ UNCHANGED nmut
        /\ IF t_final <= 0
           THEN /\ resultado' = cero
                /\ ret' = Devuelve("resultado", resultado')
                /\ ult_sim' = "ok"
                /\ completo' = TRUE
                /\ UNCHANGED << estado_actual, colgado >>
           ELSE IF ~EstadoFinito(estado_actual)
           THEN \* the step size of the integrator is NaN: it reports failure
                \* or never returns
                /\ UNCHANGED << estado_actual, resultado, completo >>
                /\ IF exito
                   THEN colgado' = TRUE /\ ret' = Devuelve("sin_retorno", 0)
                        /\ ult_sim' = "sin_retorno"
                   ELSE colgado' = FALSE /\ ret' = Lanza("RuntimeError")
                        /\ ult_sim' = "error"
           ELSE \E ys \in { Muestras(params, escenario, estado_actual, t_final, n, n) } :
                /\ resultado' = resultado_tras_integrar(exito, resultado,
                                    Resultado(t_eval(t_final, n), ys, escenario))
                /\ estado_actual' = estado_tras_integrar(exito, estado_actual, ys)
                /\ ret' = IF exito THEN Devuelve("resultado", resultado')
                          ELSE Lanza("RuntimeError")
                /\ ult_sim' = IF exito THEN "ok" ELSE "error"
                /\ completo' = (exito \/ completo)
                /\ UNCHANGED colgado

\* float subtraction a - b
FResta(a, b) ==
    IF a = FNaN \/ b = FNaN THEN FNaN
    ELSE IF (a = FInf /\ b = FInf) \/ (a = FNegInf /\ b = FNegInf) THEN FNaN
    ELSE IF a = FInf \/ b = FNegInf THEN FInf
    ELSE IF a = FNegInf \/ b = FInf THEN FNegInf
    ELSE a - b

\* d / c * 100.0 in float arithmetic, for c other than zero
FCociente100(d, c) ==
    IF d = FNaN \/ c = FNaN THEN FNaN
    ELSE IF ~EsFinito(d) /\ ~EsFinito(c) THEN FNaN
    ELSE IF ~EsFinito(d) THEN IF (d = FInf) = (c > 0) THEN FInf ELSE FNegInf
    ELSE IF ~EsFinito(c) THEN 0
    ELSE (d * 100) \div c

\* Variant: the percentage is computed without the test for zero.
Porcentaje_sin_guarda(a, b, c) ==
    IF c = 0 THEN FNaN ELSE FCociente100(FResta(a, b), c)

\* ((a - b) / c * 100.0) if c != 0 else 0.0
Porcentaje(a, b, c) ==
    IF c # 0 THEN FCociente100(FResta(a, b), c) ELSE 0

Metricas(r, p) ==
    LET k == Len(r.tiempo)
        inicial == [nutrientes |-> r.nutrientes[1], lemna |-> r.lemna[1], oxigeno |-> r.oxigeno[1]]
        final == [nutrientes |-> r.nutrientes[k], lemna |-> r.lemna[k], oxigeno |-> r.oxigeno[k]]
        capacidad == Get(p, "capacidad_carga_lemna", 2000)
        pct_capacidad == IF capacidad > 0
                         THEN IF EsFinito(final.lemna) THEN (final.lemna * 100) \div capacidad
                              ELSE final.lemna
                         ELSE 0
    IN  [ reduccion_nutrientes_pct |-> Porcentaje(inicial.nutrientes, final.nutrientes, inicial.nutrientes),
          reduccion_lemna_pct |-> Porcentaje(inicial.lemna, final.lemna, inicial.lemna),
          mejora_oxigeno_pct |-> Porcentaje(final.oxigeno, inicial.oxigeno, inicial.oxigeno),
          nutrientes_final |-> final.nutrientes,
          lemna_final |-> final.lemna,
          oxigeno_final |-> final.oxigeno,
          tiempo_simulacion |-> Get(p, "tiempo_simulacion", 200),
          nutrientes_inicial |-> inicial.nutrientes,
          lemna_inicial |-> inicial.lemna,
          oxigeno_inicial |-> inicial.oxigeno,
          porcentaje_capacidad_lemna |-> pct_capacidad ]

\* The calls that read the object leave all of this alone.
SoloLectura == UNCHANGED << estado_actual, resultado, ult_sim, completo, nsim, nmut, colgado >>

obtener_metricas ==
    /\ ~colgado
    /\ Llamada("obtener_metricas", SinArg)
    /\ Fijos
    /\ SoloLectura
    /\ IF resultado = None
       THEN ret' = Lanza("ValueError")
       ELSE ret' = Devuelve("metricas", Metricas(resultado, params))

\* min(a, b) of Python: b when b < a, otherwise a (a NaN first argument is
\* returned, every comparison with it being false).
FMin(a, b) ==
    IF a = FNaN \/ b = FNaN THEN a
    ELSE IF b < a THEN b ELSE a

\* (self.estado_actual[2] / limite) * 100.0 for limite > 0, in units of 0.01 percent
ocupacion_pct(lemna, limite) ==
    IF EsFinito(lemna) THEN (lemna * 10000) \div limite ELSE lemna

porcentaje_absorcion_lemna ==
    LET limite == Get(params, "capacidad_carga_lemna", 2000)
    IN  /\ ~colgado
        /\ Llamada("porcentaje_absorcion_lemna", SinArg)
        /\ Fijos
        /\ SoloLectura
        /\ IF limite <= 0
           THEN ret' = Devuelve("float", 0)
           ELSE ret' = Devuelve("float", FMin(ocupacion_pct(estado_actual[3], limite), 10000))

obtener_lemna_actual ==
    /\ ~colgado
    /\ Llamada("obtener_lemna_actual", SinArg)
    /\ Fijos
    /\ SoloLectura
    /\ ret' = Devuelve("float", estado_actual[3])

\* Variant: estado_actual is the last column of the solution itself
\* (solucion.y[:, -1] with no copy), and the columns of the stored result
\* are rows of the same matrix: a write into estado_actual, leaving it at y,
\* is a write into the last sample of the result. The result of a zero
\* horizon is built from new arrays.
resultado_tras_escritura_en_vista(p, res, y) ==
    IF res = None \/ Get(p, "tiempo_simulacion", 200) <= 0 THEN res
    ELSE LET k == Len(res.tiempo)
         IN  [res EXCEPT !.volumen[k] = y[1], !.nutrientes[k] = y[2],
                         !.lemna[k] = y[3], !.oxigeno[k] = y[4]]

\* The stored result after a write into estado_actual that leaves it at y:
\* estado_actual is a copy of the last column (solucion.y[:, -1].copy()), no
\* array of the result is reached.
resultado_tras_escritura(p, res, y) == res

\* Variant: the oxygen is left as it was.
estado_tras_remocion_sin_oxigeno(y, base) == << y[1], y[2], 1, y[4] >>

\* estado_actual after remover_lemna_total: biomass at 1.0, nutrients and
\* volume written back, oxygen from oxigeno_base.
estado_tras_remocion(y, base) ==
    LET nutrientes_actuales == y[2]
        volumen_actual == y[1]
    IN  << volumen_actual, nutrientes_actuales, 1, base >>

remover_lemna_total ==
    /\ ~colgado
    /\ nmut < MaxMut
    /\ nmut' = nmut + 1
    /\ Llamada("remover_lemna_total", SinArg)
    /\ Fijos
    /\ UNCHANGED << ult_sim, completo, nsim, colgado >>
    /\ estado_actual' = estado_tras_remocion(estado_actual, oxigeno_base)
    /\ resultado' = resultado_tras_escritura(params, resultado, estado_actual')
    /\ ret' = Devuelve("bool", TRUE)

\* float(cantidad): the value, or the exception raised by the conversion.
Float(c) ==
    IF c.clase = "float" \/ c.clase = "str_num" THEN [ok |-> TRUE, v |-> c.v]
    ELSE IF c.clase = "str" THEN [ok |-> FALSE, v |-> 0]
    ELSE [ok |-> FALSE, v |-> 0]

\* Variant: the test is cantidad < 0.
cantidad_rechazada_estricta(f) ==
    IF ~f.ok THEN TRUE ELSE (f.v # FNaN /\ f.v < 0)

\* The two early returns of agregar_lemna: the conversion raised, or
\* cantidad <= 0.
cantidad_rechazada(f) ==
    IF ~f.ok THEN TRUE ELSE FMenorIgual(f.v, 0)

agregar_lemna(c) ==
    LET f == Float(c)
    IN  /\ ~colgado
        /\ nmut < MaxMut
        /\ nmut' = nmut + 1
        /\ Llamada("agregar_lemna", c)
        /\ Fijos
        /\ UNCHANGED << ult_sim, completo, nsim, colgado >>
        /\ IF cantidad_rechazada(f)
           THEN /\ ret' = Devuelve("bool", FALSE)
                /\ UNCHANGED << estado_actual, resultado >>
           ELSE /\ estado_actual' = [estado_actual EXCEPT ![3] = FSuma(@, f.v)]
                /\ resultado' = resultado_tras_escritura(params, resultado, estado_actual')
                /\ ret' = Devuelve("bool", TRUE)

\* Variant: the stored result survives the reset.
resetear_estado_sin_descartar ==
    /\ ~colgado
    /\ nmut < MaxMut
    /\ nmut' = nmut + 1
    /\ Llamada("resetear_estado", SinArg)
    /\ Fijos
    /\ UNCHANGED << ult_sim, nsim, colgado, resultado >>
    /\ estado_actual' = estado_inicial
    /\ completo' = FALSE
    /\ ret' = Devuelve("none", 0)

\* Variant: the reset restores the current state from itself.
resetear_estado_sin_restaurar ==
    /\ ~colgado
    /\ nmut < MaxMut
    /\ nmut' = nmut + 1
    /\ Llamada("resetear_estado", SinArg)
    /\ Fijos
    /\ UNCHANGED << ult_sim, nsim, colgado, estado_actual >>
    /\ resultado' = None
    /\ completo' = FALSE
    /\ ret' = Devuelve("none", 0)

resetear_estado ==
    /\ ~colgado
    /\ nmut < MaxMut
    /\ nmut' = nmut + 1
    /\ Llamada("resetear_estado", SinArg)
    /\ Fijos
    /\ UNCHANGED << ult_sim, nsim, colgado >>
    /\ estado_actual' = estado_inicial
    /\ resultado' = None
    /\ completo' = FALSE
    /\ ret' = Devuelve("none", 0)

\* The amounts a caller passes to agregar_lemna.
Cantidades ==
    { [clase |-> "float", v |-> 500],
      [clase |-> "float", v |-> 0], [clase |-> "float", v |-> 0 - 10],
      [clase |-> "float", v |-> FInf], [clase |-> "float", v |-> FNegInf],
      [clase |-> "float", v |-> FNaN],
      [clase |-> "str_num", v |-> 500],
      [clase |-> "str", v |-> 0], [clase |-> "none", v |-> 0] }

Next ==
    \/ \E exito \in BOOLEAN : simular(exito)
    \/ obtener_metricas
    \/ obtener_lemna_actual
    \/ porcentaje_absorcion_lemna
    \/ remover_lemna_total
    \/ \E c \in Cantidades : agregar_lemna(c)
    \/ resetear_estado

Spec == Init /\ [][Next]_vars

\* ------------------------------------------------------- parameter store
\* The variables of the ModeloTiticaca instance.
varsInstancia == << params, escenario, estado_inicial, estado_actual, oxigeno_base,
                    resultado, previo, res_previo, construido, op_previo, ult_sim,
                    completo, nsim, nmut, colgado, parametros, parametros_dados >>

\* No ModeloTiticaca instance has been constructed.
SinInstancia ==
    /\ params = None /\ escenario = None
    /\ estado_inicial = None /\ estado_actual = None /\ oxigeno_base = None
    /\ resultado = None /\ previo = None /\ res_previo = None /\ construido = None
    /\ op_previo = "import" /\ ult_sim = "ninguna" /\ completo = FALSE
    /\ nsim = 0 /\ nmut = 0 /\ colgado = FALSE
    /\ parametros = None /\ parametros_dados = None

\* Values of the five validated parameters on both sides of the limits of
\* validar_parametros and of the documented ranges.
ValoresVolumen == { 4999, 5000, 12000, 12001 }
ValoresNutrientes == { 99, 100, 50000, 50001, 100000, 100001 }
ValoresLemna == { 0 - 1, 0, 5000, 5001 }
ValoresOxigeno == { 0 - 1, 0, 1200, 1201 }
ValoresTiempo == { 0 - 1, 0, 9, 10, 2000, 2001 }

\* The modifications a caller passes to obtener_parametros: none, a volume,
\* an oxygen concentration, or nutrients, biomass and horizon together.
Modificaciones ==
    { << >> }
        \cup { [ volumen_inicial |-> v ] : v \in ValoresVolumen }
        \cup { [ oxigeno_inicial |-> o ] : o \in ValoresOxigeno }
        \cup { [ nutrientes_inicial |-> n, lemna_inicial |-> l, tiempo_simulacion |-> t ] :
                 n \in ValoresNutrientes, l \in ValoresLemna, t \in ValoresTiempo }

InitAlmacen ==
    /\ SinInstancia
    /\ SinRunner
    /\ SinPar
    /\ op = "import"
    /\ arg = SinArg
    /\ ret = Devuelve("none", 0)

\* A call obtener_parametros(modificaciones).
LlamarObtenerParametros(modificaciones) ==
    /\ op' = "obtener_parametros"
    /\ arg' = [clase |-> "modificaciones", v |-> modificaciones]
    /\ ret' = obtener_parametros(modificaciones)
    /\ UNCHANGED << varsInstancia, varsRunner, varsPar >>

NextAlmacen == \E modificaciones \in Modificaciones : LlamarObtenerParametros(modificaciones)

SpecAlmacen == InitAlmacen /\ [][NextAlmacen]_vars

\* ------------------------------------------------------- batch runner
\* Largest number of names in the list passed to ejecutar_todos.
MaxLote == 3

\* obtener_escenario(nombre): a copy of the entry of ESCENARIOS, or the
\* ValueError for a name that is not in it.
obtener_escenario(nombre) ==
    IF nombre \notin DOMAIN ESCENARIOS THEN Lanza("ValueError")
    ELSE Devuelve("escenario", ESCENARIOS[nombre])

\* simular() on a model m that __init__ has just built from validated
\* parameters: the result, or the RuntimeError of a solver failure.
simular_nuevo(m, exito) ==
    LET t_final == Get(m.params, "tiempo_simulacion", 200)
        paso == Get(m.params, "paso_tiempo", 1)
        n == num_pasos(t_final, paso)
    IN  IF t_final <= 0
        THEN Devuelve("resultado", resultado_horizonte_cero(m.estado_actual, m.escenario))
        ELSE IF ~exito THEN Lanza("RuntimeError")
        ELSE Devuelve("resultado",
                 Resultado(t_eval(t_final, n),
                           Muestras(m.params, m.escenario, m.estado_actual, t_final, n, n),
                           m.escenario))

\* ejecutar_escenario(nombre): what it raises, or the result and the metrics
\* it stores under the name.
ejecutar_escenario(parametros_base, nombre, exito) ==
    LET esc == obtener_escenario(nombre)
    IN  IF esc.tipo = "error" THEN esc
        ELSE LET modelo == Construir(parametros_base, esc.val)
                 res == simular_nuevo(modelo, exito)
             IN  IF res.tipo = "error" THEN res
                 ELSE Devuelve("guardado",
                          [ resultado |-> res.val,
                            metricas |-> Metricas(res.val, modelo.params) ])

\* Variant: a scenario that failed is recorded in self.resultados, with no
\* result.
resultados_tras_falla_registrada(guardados, nombre) ==
    Update(guardados, [x \in {nombre} |-> None])

\* self.resultados after an ejecutar_escenario(nombre) that raised:
\* obtener_escenario, __init__ and simular come before the two stores, so the
\* exception leaves the method with nothing stored.
resultados_tras_falla(guardados, nombre) == guardados

\* Variant: the exception of a scenario leaves the loop.
indice_tras_iteracion_sin_captura(falla, i, n) == IF falla THEN n + 1 ELSE i + 1

\* The position of the loop after an iteration: 'except Exception' prints
\* and continues with the next name.
indice_tras_iteracion(falla, i, n) == i + 1

\* list(ESCENARIOS.keys())
claves_ESCENARIOS ==
    << "base", "tratamiento_50", "tratamiento_80", "tratamiento_95", "combinado", "optimista" >>

\* The names a caller lists: two scenarios of the table and a name that is
\* not in it.
Nombres == { "base", "optimista", "inexistente" }

RECURSIVE Listas(_)
Listas(n) ==
    IF n = 0 THEN { << >> }
    ELSE LET cortas == Listas(n - 1)
         IN  cortas \cup { Append(l, x) : l \in { c \in cortas : Len(c) = n - 1 }, x \in Nombres }

\* The lists passed to ejecutar_todos; with None the list is every key of
\* ESCENARIOS.
Lotes == Listas(MaxLote) \cup { claves_ESCENARIOS }

\* The parameters the runner was constructed with, validated by obtener_parametros.
ParametrosRunner ==
    { r.val : r \in { q \in { obtener_parametros([tiempo_simulacion |-> 10, paso_tiempo |-> 5]) } :
                          q.tipo = "params" } }

\* RunnerSimulacion(parametros) constructed and ejecutar_todos(lote) entered.
InitLote ==
    /\ SinInstancia
    /\ SinPar
    /\ runner_parametros \in ParametrosRunner
    /\ resultados = << >> /\ metricas = << >>
    /\ escenarios \in Lotes
    /\ indice = 1
    /\ intentos = << >>
    /\ op = "ejecutar_todos"
    /\ arg = SinArg
    /\ ret = Devuelve("none", 0)

\* One iteration of the loop of ejecutar_todos: ejecutar_escenario inside
\* try / except Exception / continue.
iteracion(exito) ==
    /\ indice <= Len(escenarios)
    /\ LET nombre == escenarios[indice]
           r == ejecutar_escenario(runner_parametros, nombre, exito)
       IN  /\ op' = "ejecutar_escenario"
           /\ arg' = [clase |-> "nombre", v |-> nombre]
           /\ ret' = IF r.tipo = "error" THEN r ELSE Devuelve("resultado", r.val.resultado)
           /\ intentos' = Append(intentos, [nombre |-> nombre, tipo |-> r.tipo, val |-> r.val])
           /\ IF r.tipo = "error"
              THEN /\ resultados' = resultados_tras_falla(resultados, nombre)
                   /\ UNCHANGED metricas
              ELSE /\ resultados' = Update(resultados, [x \in {nombre} |-> r.val.resultado])
                   /\ metricas' = Update(metricas, [x \in {nombre} |-> r.val.metricas])
           /\ indice' = indice_tras_iteracion(r.tipo = "error", indice, Len(escenarios))
    /\ UNCHANGED << varsInstancia, varsPar, runner_parametros, escenarios >>

NextLote == \E exito \in BOOLEAN : iteracion(exito)

SpecLote == InitLote /\ [][NextLote]_vars

\* ------------------------------------------------------- two instances
\* Two ModeloTiticaca instances constructed from the same parameter mapping
\* and the same scenario descriptor. Dicts and numpy arrays are objects with
\* an address: an attribute holds the address, an assignment to an element
\* writes into the object, and .copy() and np.array give an object of its
\* own. Results are held by value: no method writes into a stored result.

\* Largest number of operations on the pair.
MaxPar == 3
\* Number of addresses.
NumDirecciones == 16

Direcciones == 1..NumDirecciones
Libre == [clase |-> "libre", v |-> 0]
Dict(d) == [clase |-> "dict", v |-> d]
Array(y) == [clase |-> "array", v |-> y]
Ref(a) == [ref |-> a]
Poner(m, a, celda) == [m EXCEPT ![a] = celda]

\* The address of a new object: the lowest one that holds nothing.
nueva(m) ==
    CHOOSE a \in Direcciones :
        m[a].clase = "libre" /\ \A b \in Direcciones : b < a => m[b].clase # "libre"

\* Variant: the state array is one object of the class, shared by whatever
\* is built after the first.
array_de_clase(m) ==
    IF \E a \in Direcciones : m[a].clase = "array"
    THEN CHOOSE a \in Direcciones :
            m[a].clase = "array" /\ \A b \in Direcciones : b < a => m[b].clase # "array"
    ELSE nueva(m)

\* The address of the array that np.array([...]) or .copy() returns.
array_nuevo(m) == nueva(m)

\* Addresses of the caller's objects: the parameter mapping, the scenario
\* descriptor and the 'parametros' mapping the descriptor holds.
DirParametros == 1
DirEscenario == 2
DirSobrescritos == 3

\* A scenario dict with its 'parametros' mapping read through its address.
Desreferenciar(m, e) ==
    IF "parametros" \in DOMAIN e THEN [e EXCEPT !.parametros = m[e.parametros.ref].v] ELSE e

\* The caller's objects, before any instance is built.
MemoriaDelLlamador(parametros_base, esc) ==
    [a \in Direcciones |->
        IF a = DirParametros THEN Dict(parametros_base)
        ELSE IF a = DirEscenario THEN Dict([esc EXCEPT !.parametros = Ref(DirSobrescritos)])
        ELSE IF a = DirSobrescritos THEN Dict(esc.parametros)
        ELSE Libre]

\* ModeloTiticaca(parametros, escenario) on the caller's objects: the memory
\* afterwards and the attributes of the new instance. The copy of the
\* scenario is shallow: it holds the address of the same 'parametros' dict.
ConstruirEn(m) ==
    LET c == Construir(m[DirParametros].v, Desreferenciar(m, m[DirEscenario].v))
        dp == nueva(m)
        m1 == Poner(m, dp, Dict(c.params))
        de == nueva(m1)
        m2 == Poner(m1, de, Dict(m[DirEscenario].v))
        di == array_nuevo(m2)
        m3 == Poner(m2, di, Array(c.estado_inicial))
        da == array_nuevo(m3)
        m4 == Poner(m3, da, Array(m3[di].v))
    IN  [ mem |-> m4,
          modelo |-> [ params |-> dp, escenario |-> de, estado_inicial |-> di,
                       estado_actual |-> da, oxigeno_base |-> c.oxigeno_base,
                       resultado |-> None ] ]

\* The objects some attribute, or the caller, still holds.
Vivas(ms) ==
    { DirParametros, DirEscenario, DirSobrescritos }
        \cup UNION { { ms[j].params, ms[j].escenario, ms[j].estado_inicial,
                       ms[j].estado_actual } : j \in DOMAIN ms }

\* The objects nothing holds any more are collected.
Recolectar(m, ms) == [a \in Direcciones |-> IF a \in Vivas(ms) THEN m[a] ELSE Libre]

\* The arguments both instances are constructed from.
ConstruccionesPar ==
    { << Update(PARAMETROS_DEFAULT, [tiempo_simulacion |-> 10, paso_tiempo |-> 5]),
         ESCENARIOS.optimista >>,
      << Update(PARAMETROS_DEFAULT, [tiempo_simulacion |-> 0, paso_tiempo |-> 5]),
         EscenarioPersonalizado >> }

InitPar ==
    /\ SinInstancia
    /\ SinRunner
    /\ \E c \in ConstruccionesPar :
          LET uno == ConstruirEn(MemoriaDelLlamador(c[1], c[2]))
              dos == ConstruirEn(uno.mem)
          IN  /\ mem = dos.mem
              /\ modelos = << uno.modelo, dos.modelo >>
    /\ actor = 0
    /\ npar = 0
    /\ entregados = << >>
    /\ op = "__init__"
    /\ arg = SinArg
    /\ ret = Devuelve("none", 0)

\* What every operation on instance j of the pair records and leaves alone.
LlamadaEn(j, nombre) ==
    /\ npar < MaxPar
    /\ npar' = npar + 1
    /\ actor' = j
    /\ op' = nombre
    /\ arg' = [clase |-> "instancia", v |-> j]
    /\ UNCHANGED << varsInstancia, varsRunner, entregados >>

\* simular() on instance j, whose state is finite.
simular_en(j, exito) ==
    LET yo == modelos[j]
        p == mem[yo.params].v
        e == Desreferenciar(mem, mem[yo.escenario].v)
        y == mem[yo.estado_actual].v
        t_final == Get(p, "tiempo_simulacion", 200)
        paso == Get(p, "paso_tiempo", 1)
        n == num_pasos(t_final, paso)
    IN  /\ EstadoFinito(y)
        /\ LlamadaEn(j, "simular")
        /\ IF t_final <= 0
           THEN /\ modelos' = [modelos EXCEPT ![j].resultado = resultado_horizonte_cero(y, e)]
                /\ ret' = Devuelve("resultado", modelos'[j].resultado)
                /\ UNCHANGED mem
           ELSE IF ~exito
           THEN /\ ret' = Lanza("RuntimeError")
                /\ UNCHANGED << mem, modelos >>
           ELSE \E ys \in { Muestras(p, e, y, t_final, n, n) } :
                  LET da == array_nuevo(mem)
                      ms == [modelos EXCEPT
                               ![j].resultado = Resultado(t_eval(t_final, n), ys, e),
                               ![j].estado_actual = da]
                  IN  /\ modelos' = ms
                      /\ mem' = Recolectar(Poner(mem, da, Array(ys[Len(ys)])), ms)
                      /\ ret' = Devuelve("resultado", ms[j].resultado)

\* remover_lemna_total() on instance j: four writes into its state array.
remover_lemna_total_en(j) ==
    LET yo == modelos[j]
        y == mem[yo.estado_actual].v
    IN  /\ LlamadaEn(j, "remover_lemna_total")
        /\ mem' = Poner(mem, yo.estado_actual, Array(estado_tras_remocion(y, yo.oxigeno_base)))
        /\ ret' = Devuelve("bool", TRUE)
        /\ UNCHANGED modelos

\* agregar_lemna(cantidad) on instance j: one write into its state array.
agregar_lemna_en(j, c) ==
    LET yo == modelos[j]
        y == mem[yo.estado_actual].v
        f == Float(c)
    IN  /\ LlamadaEn(j, "agregar_lemna")
        /\ UNCHANGED modelos
        /\ IF cantidad_rechazada(f)
           THEN /\ ret' = Devuelve("bool", FALSE)
                /\ UNCHANGED mem
           ELSE /\ mem' = Poner(mem, yo.estado_actual, Array([y EXCEPT ![3] = FSuma(@, f.v)]))
                /\ ret' = Devuelve("bool", TRUE)

\* resetear_estado() on instance j: a copy of its initial array, no result.
resetear_estado_en(j) ==
    LET yo == modelos[j]
        da == array_nuevo(mem)
        ms == [modelos EXCEPT ![j].estado_actual = da, ![j].resultado = None]
    IN  /\ LlamadaEn(j, "resetear_estado")
        /\ modelos' = ms
        /\ mem' = Recolectar(Poner(mem, da, Array(mem[yo.estado_inicial].v)), ms)
        /\ ret' = Devuelve("none", 0)

\* The amounts passed to agregar_lemna on an instance of the pair.
CantidadesPar == { [clase |-> "float", v |-> 500], [clase |-> "float", v |-> 0] }

NextPar ==
    \E j \in 1..2 :
        \/ \E exito \in BOOLEAN : simular_en(j, exito)
        \/ remover_lemna_total_en(j)
        \/ \E c \in CantidadesPar : agregar_lemna_en(j, c)
        \/ resetear_estado_en(j)

SpecPar == InitPar /\ [][NextPar]_vars

\* ------------------------------------------------------- rate evaluator
\* The rate functions of an instance, called in any order on a parameter
\* mapping as __init__ leaves it, a scenario descriptor and a state.

\* self.params of an instance built from the defaults with the given
\* carrying capacity and uptake rate.
ParametrosDeTasas(capacidad, tasa_abs) ==
    Construir(Update(PARAMETROS_DEFAULT,
                     [ capacidad_carga_lemna |-> capacidad,
                       tasa_absorcion_nutrientes_lemna |-> tasa_abs ]),
              ESCENARIOS.base).params

\* Carrying capacities (ton) and uptake rates (1e-8 and 0.01).
CapacidadesTasas == { 2000, 100 }
AbsorcionesTasas == { 1, 1000000 }
ParametrosTasas ==
    { ParametrosDeTasas(k, a) : k \in CapacidadesTasas, a \in AbsorcionesTasas }

\* States: volumes, nutrient concentrations, biomasses on both sides of 1 ton
\* and of 95 % of either capacity, oxygen below and above saturation.
VolumenesTasas == { 100, 8930 }
NutrientesTasas == { 0, 3000, 35200 }
LemnasTasas == { 0 - 5, 0, 1, 20, 49, 95, 100, 1000, 1900, 2000 }
OxigenosTasas == { 800, 1200 }
EstadosTasas == { << v, n, l, o >> :
                    v \in VolumenesTasas, n \in NutrientesTasas,
                    l \in LemnasTasas, o \in OxigenosTasas }

\* Scenario descriptors: three presets, one with a biomass-addition rate and
\* one with a negative removal rate.
EscenarioConAdicion == Update(ESCENARIOS.combinado, [adicion_lemna |-> 200])
EscenarioRemocionNegativa == [ESCENARIOS.base EXCEPT !.remocion_mecanica_lemna = 0 - 100]
EscenariosTasas ==
    { ESCENARIOS.base, ESCENARIOS.combinado, ESCENARIOS.optimista,
      EscenarioConAdicion, EscenarioRemocionNegativa }

\* Source masses (ton/yr) and treatment efficiencies (percent) for the load.
DescargasTasas ==
    { Update(PARAMETROS_DEFAULT, [descarga_puno |-> a, descarga_juliaca |-> b, descarga_otras |-> c]) :
        a \in { 0, 12 }, b \in { 0, 20 }, c \in { 0, 10 } }
EficienciasTasas == { 0, 50, 95, 100, 200 }
EscenariosDescarga ==
    { [ESCENARIOS.base EXCEPT !.eficiencia_tratamiento_puno = a,
                              !.eficiencia_tratamiento_juliaca = b] :
        a \in EficienciasTasas, b \in EficienciasTasas }

\* States (capacity, nutrients, biomass), with the growth parameters of the
\* defaults, at which the double-precision result of
\* dL_dt - (lemna_ton + dL_dt) is one unit in the last place below
\* -lemna_ton: 33.8285592920354 - (49.0 + 33.8285592920354) is
\* -49.00000000000001.
RestasPorDebajo == { << 2000, 35200, 49 >> }

\* Units in the last place by which the biomass derivative of ecuaciones
\* differs from its value in exact arithmetic: the capped removal subtracts
\* the rounded sum lemna_ton + dL_dt from dL_dt.
ulp_dL_dt(p, e, y) ==
    LET nutrientes_mgL == Max(y[2], 0)
        lemna_ton == Max(y[3], 0)
        crecimiento == crecimiento_lemna(p, nutrientes_mgL, lemna_ton)
        remocion == Max(0, Get(e, "remocion_mecanica_lemna", 0))
    IN  IF /\ remocion > 0
           /\ remocion >= lemna_ton + crecimiento
           /\ << Get(p, "capacidad_carga_lemna", 2000), nutrientes_mgL, lemna_ton >>
                 \in RestasPorDebajo
        THEN 0 - 1
        ELSE 0

\* The arguments of the calls: parameters, scenario and state.
Entrada(p, e, y) == [clase |-> "tasas", v |-> [params |-> p, escenario |-> e, y |-> y]]

\* The arguments the rate functions are called with.
EntradasTasas ==
    { Entrada(p, e, y) : p \in ParametrosTasas, e \in EscenariosTasas, y \in EstadosTasas }
        \cup { Entrada(p, e, << 8930, 3000, 300, 800 >>) :
                 p \in DescargasTasas, e \in EscenariosDescarga }

InitTasas ==
    /\ SinInstancia
    /\ SinRunner
    /\ SinPar
    /\ op = "import"
    /\ arg \in EntradasTasas
    /\ ret = Devuelve("none", 0)

\* What every call of a rate function leaves alone.
FijosTasas == UNCHANGED << arg, varsInstancia, varsRunner, varsPar >>

LlamarDescarga ==
    /\ op' = "descarga_contaminantes"
    /\ ret' = Devuelve("float", descarga_contaminantes(arg.v.params, arg.v.escenario))
    /\ FijosTasas

LlamarCrecimiento ==
    /\ op' = "crecimiento_lemna"
    /\ ret' = Devuelve("float", crecimiento_lemna(arg.v.params, arg.v.y[2], arg.v.y[3]))
    /\ FijosTasas

LlamarConsumo ==
    /\ op' = "consumo_nutrientes_lemna"
    /\ ret' = Devuelve("float",
                  consumo_nutrientes_lemna(arg.v.params, arg.v.y[2], arg.v.y[3], arg.v.y[1]))
    /\ FijosTasas

LlamarOxigeno ==
    /\ op' = "dinamica_oxigeno"
    /\ ret' = Devuelve("float", dinamica_oxigeno(arg.v.params, arg.v.y[4], arg.v.y[3], arg.v.y[2]))
    /\ FijosTasas

LlamarEcuaciones ==
    /\ op' = "ecuaciones"
    /\ ret' = Devuelve("array", [ dy |-> ecuaciones(arg.v.params, arg.v.escenario, arg.v.y),
                                  ulp_dL |-> ulp_dL_dt(arg.v.params, arg.v.escenario, arg.v.y) ])
    /\ FijosTasas

NextTasas ==
    \/ LlamarDescarga
    \/ LlamarCrecimiento
    \/ LlamarConsumo
    \/ LlamarOxigeno
    \/ LlamarEcuaciones

SpecTasas == InitTasas /\ [][NextTasas]_vars

\* ------------------------------------------------------- preset table
\* The module-level dict ESCENARIOS as objects: each preset is a dict with
\* an address, and its 'parametros' mapping a dict with an address of its
\* own. A caller asks for descriptors and writes into what it was handed.

\* Largest number of obtener_escenario calls and writes of the caller.
MaxTabla == 3

\* Position of a name in the table.
PosicionEnTabla(nombre) ==
    CHOOSE k \in 1..Len(claves_ESCENARIOS) : claves_ESCENARIOS[k] = nombre

\* Address of the dict of a preset and of its 'parametros' dict.
DirPreset(nombre) == 2 * PosicionEnTabla(nombre) - 1
DirParametrosPreset(nombre) == 2 * PosicionEnTabla(nombre)

\* The objects once the module escenarios has been imported.
MemoriaDeTabla ==
    [a \in Direcciones |->
        IF \E n \in DOMAIN ESCENARIOS : a = DirPreset(n)
        THEN LET n == CHOOSE x \in DOMAIN ESCENARIOS : a = DirPreset(x)
             IN  Dict([ESCENARIOS[n] EXCEPT !.parametros = Ref(DirParametrosPreset(n))])
        ELSE IF \E n \in DOMAIN ESCENARIOS : a = DirParametrosPreset(n)
        THEN LET n == CHOOSE x \in DOMAIN ESCENARIOS : a = DirParametrosPreset(x)
             IN  Dict(ESCENARIOS[n].parametros)
        ELSE Libre]

\* ESCENARIOS[nombre].copy(): a new dict with the entries of the preset, the
\* value of 'parametros' being the same object as the preset's.
copia_de_preset(m, nombre) == Dict(m[DirPreset(nombre)].v)

InitTabla ==
    /\ SinInstancia
    /\ SinRunner
    /\ mem = MemoriaDeTabla
    /\ modelos = << >> /\ actor = 0 /\ npar = 0
    /\ entregados = << >>
    /\ op = "import"
    /\ arg = SinArg
    /\ ret = Devuelve("none", 0)

\* What every step on the table records and leaves alone.
PasoDeTabla(nombre_op, a) ==
    /\ npar < MaxTabla
    /\ npar' = npar + 1
    /\ op' = nombre_op
    /\ arg' = a
    /\ UNCHANGED << varsInstancia, varsRunner, modelos, actor >>

\* obtener_escenario(nombre) on the table as it is now.
LlamarObtenerEscenario(nombre) ==
    /\ PasoDeTabla("obtener_escenario", [clase |-> "nombre", v |-> nombre])
    /\ IF nombre \notin DOMAIN ESCENARIOS
       THEN /\ ret' = Lanza("ValueError")
            /\ UNCHANGED << mem, entregados >>
       ELSE LET a == nueva(mem)
            IN  /\ mem' = Poner(mem, a, copia_de_preset(mem, nombre))
                /\ entregados' = Append(entregados, a)
                /\ ret' = Devuelve("escenario", Desreferenciar(mem', mem'[a].v))

\* The caller assigns a top-level field of a descriptor it was handed:
\* escenario[campo] = valor.
EscribirCampo(i, campo, valor) ==
    /\ i \in 1..Len(entregados)
    /\ PasoDeTabla("escribir_campo", [clase |-> "entregado", v |-> i])
    /\ mem' = Poner(mem, entregados[i], Dict([mem[entregados[i]].v EXCEPT ![campo] = valor]))
    /\ ret' = Devuelve("none", 0)
    /\ UNCHANGED entregados

\* The caller assigns an entry of the 'parametros' mapping of a descriptor
\* it was handed: escenario['parametros'][clave] = valor.
EscribirSobrescrito(i, clave, valor) ==
    /\ i \in 1..Len(entregados)
    /\ PasoDeTabla("escribir_sobrescrito", [clase |-> "entregado", v |-> i])
    /\ LET d == mem[entregados[i]].v.parametros.ref
       IN  mem' = Poner(mem, d, Dict(Update(mem[d].v, [x \in {clave} |-> valor])))
    /\ ret' = Devuelve("none", 0)
    /\ UNCHANGED entregados

\* The names the caller asks for.
NombresTabla == { "base", "optimista", "inexistente" }
\* The top-level assignments: an efficiency of 33 % or a removal of 77 ton/yr.
CamposEscritos == { << "eficiencia_tratamiento_puno", 33 >>, << "remocion_mecanica_lemna", 77 >> }
\* The override assignments: other sources at 0 or initial biomass at 900 ton.
SobrescritosEscritos == { << "descarga_otras", 0 >>, << "lemna_inicial", 900 >> }

NextTabla ==
    \/ \E nombre \in NombresTabla : LlamarObtenerEscenario(nombre)
    \/ \E i \in 1..MaxTabla, c \in CamposEscritos : EscribirCampo(i, c[1], c[2])
    \/ \E i \in 1..MaxTabla, c \in SobrescritosEscritos : EscribirSobrescrito(i, c[1], c[2])

SpecTabla == InitTabla /\ [][NextTabla]_vars

\* ------------------------------------------------------- properties
PrimeraMuestra(r) == << r.volumen[1], r.nutrientes[1], r.lemna[1], r.oxigeno[1] >>
UltimaMuestra(r) ==
    LET k == Len(r.tiempo)
    IN  << r.volumen[k], r.nutrientes[k], r.lemna[k], r.oxigeno[k] >>

Horizonte == Get(params, "tiempo_simulacion", 200)

\* C1: every successful simular() returns a result whose first sample is the
\* current state as it was when simular() was called, stores that result,
\* and on return the current state is the last sample of the stored result.
C1_CorridasEncadenadas ==
    (op = "simular" /\ ret.tipo = "resultado") =>
        /\ PrimeraMuestra(ret.val) = previo
        /\ resultado = ret.val
        /\ estado_actual = UltimaMuestra(resultado)

\* A second, successful run with more than one sample, started right after a
\* biomass mutation from a state that is not the constructed one.
C1_Testigo ==
    /\ op = "simular" /\ ret.tipo = "resultado" /\ nsim = 2
    /\ op_previo \in {"agregar_lemna", "remover_lemna_total"}
    /\ Len(resultado.tiempo) > 1
    /\ previo # construido
    /\ estado_actual # previo

\* C2: remover_lemna_total() returns True, sets the biomass to 1.0, leaves
\* nutrients and volume as they were before the call and sets the oxygen to
\* oxigeno_base, which is still the oxygen recorded at construction.
C2_RemocionTotal ==
    (op = "remover_lemna_total") =>
        /\ ret = Devuelve("bool", TRUE)
        /\ estado_actual[3] = 1
        /\ estado_actual[2] = previo[2]
        /\ estado_actual[1] = previo[1]
        /\ estado_actual[4] = oxigeno_base
        /\ oxigeno_base = construido[4]

\* A removal after a run that moved biomass and oxygen away from their
\* constructed values.
C2_Testigo ==
    /\ op = "remover_lemna_total" /\ op_previo = "simular"
    /\ previo[4] # oxigeno_base
    /\ previo[3] # 1
    /\ previo[2] # construido[2]

\* C3: resetear_estado() makes the current state the state built by __init__
\* and leaves no stored result; a zero-horizon simular() right after it
\* returns a single sample equal to that state.
C3_Reset ==
    [][ /\ (op' = "resetear_estado") =>
              (estado_actual' = construido /\ resultado' = None)
        /\ (op = "resetear_estado" /\ op' = "simular" /\ Horizonte <= 0) =>
              /\ ret'.tipo = "resultado"
              /\ Len(ret'.val.tiempo) = 1
              /\ PrimeraMuestra(ret'.val) = construido ]_vars

\* A zero-horizon run right after a reset that undid a biomass mutation and
\* discarded an earlier result.
C3_Testigo ==
    /\ op = "simular" /\ op_previo = "resetear_estado" /\ Horizonte <= 0
    /\ nsim = 2 /\ nmut >= 2
    /\ ret.tipo = "resultado"
    /\ estado_actual = construido

\* C4: when the most recent simular() failed, obtener_metricas() fails
\* instead of returning a metrics mapping.
C4_SinMetricasTrasFallo ==
    (op = "obtener_metricas" /\ ult_sim = "error") => ret.tipo = "error"

\* C5: when the solver reports non-success simular() raises, the current
\* state is what it was before the call and the stored result is untouched.
C5_FalloSinEfecto ==
    (op = "simular" /\ arg = VeredictoSolver(FALSE)) =>
        /\ ret = Lanza("RuntimeError")
        /\ estado_actual = previo
        /\ resultado = res_previo

\* A failed run of an instance that holds the result of an earlier run.
C5_Testigo ==
    /\ op = "simular" /\ ret = Lanza("RuntimeError")
    /\ res_previo # None
    /\ Len(res_previo.tiempo) > 1
    /\ EstadoFinito(previo)

\* C6: obtener_metricas() never changes the current state; it raises while no
\* simular() has succeeded since construction or the last reset, and
\* returns a metrics mapping once one has.
C6_MetricasRequierenResultado ==
    (op = "obtener_metricas") =>
        /\ estado_actual = previo
        /\ resultado = res_previo
        /\ IF completo THEN ret.tipo = "metricas" ELSE ret = Lanza("ValueError")

\* Metrics refused right after a reset that discarded a completed result.
C6_Testigo ==
    /\ op = "obtener_metricas" /\ op_previo = "resetear_estado"
    /\ ult_sim = "ok"
    /\ ret = Lanza("ValueError")

\* A float amount that is finite and positive.
CantidadFinitaPositiva(c) == c.clase = "float" /\ EsFinito(c.v) /\ c.v > 0

\* C7: for a finite positive amount agregar_lemna returns True and the
\* biomass grows by exactly the amount, the other components unchanged.
C7_AgregarExacto ==
    (op = "agregar_lemna" /\ CantidadFinitaPositiva(arg)) =>
        /\ ret = Devuelve("bool", TRUE)
        /\ FResta(estado_actual[3], previo[3]) = arg.v
        /\ estado_actual[1] = previo[1]
        /\ estado_actual[2] = previo[2]
        /\ estado_actual[4] = previo[4]

\* An amount that is not a number, or a number that is zero or negative.
CantidadInvalida(c) ==
    \/ c.clase \in {"str", "none"}
    \/ (c.clase \in {"float", "str_num"} /\ c.v # FNaN /\ c.v <= 0)

\* C8: for a non-numeric, zero or negative amount agregar_lemna returns
\* False, raises nothing and leaves the state and the stored result alone.
C8_CantidadInvalidaRechazada ==
    (op = "agregar_lemna" /\ CantidadInvalida(arg)) =>
        /\ ret = Devuelve("bool", FALSE)
        /\ estado_actual = previo
        /\ resultado = res_previo

\* The amount 0 refused on an instance that holds a result.
C8_Testigo ==
    /\ op = "agregar_lemna" /\ arg = [clase |-> "float", v |-> 0]
    /\ ret = Devuelve("bool", FALSE)
    /\ resultado # None

\* C9: an infinite or not-a-number amount is refused and leaves the biomass
\* unchanged, so the biomass is always a finite number.
C9_BiomasaFinita ==
    /\ EsFinito(estado_actual[3])
    /\ (op = "agregar_lemna" /\ arg.clase = "float" /\ arg.v \in {FInf, FNaN}) =>
          (ret = Devuelve("bool", FALSE) /\ estado_actual[3] = previo[3])

\* C10: every sample of the stored trajectory has non-negative nutrients,
\* biomass and oxygen and a volume not below the volume floor.
C10_MuestrasNoNegativas ==
    (resultado # None) =>
        \A i \in 1..Len(resultado.tiempo) :
            /\ FMenorIgual(VolumenPiso, resultado.volumen[i])
            /\ FMenorIgual(0, resultado.nutrientes[i])
            /\ FMenorIgual(0, resultado.lemna[i])
            /\ FMenorIgual(0, resultado.oxigeno[i])

\* C11: with a horizon of 0 simular() returns one sample at time 0 whose four
\* values are the current state, with the success flag true, stores it as the
\* result and leaves the current state as it was.
C11_HorizonteCero ==
    (op = "simular" /\ Horizonte = 0) =>
        /\ ret.tipo = "resultado"
        /\ ret.val.tiempo = << 0 >>
        /\ Len(ret.val.volumen) = 1 /\ Len(ret.val.nutrientes) = 1
        /\ Len(ret.val.lemna) = 1 /\ Len(ret.val.oxigeno) = 1
        /\ PrimeraMuestra(ret.val) = previo
        /\ ret.val.exito = TRUE
        /\ resultado = ret.val
        /\ estado_actual = previo

\* A zero-horizon run on a state that a biomass addition moved away from the
\* constructed one.
C11_Testigo ==
    /\ op = "simular" /\ Horizonte = 0 /\ op_previo = "agregar_lemna"
    /\ previo # construido
    /\ EstadoFinito(previo)
    /\ ret.tipo = "resultado"

Paso == Get(params, "paso_tiempo", 1)

\* C12: for a positive horizon and a positive step a successful simular()
\* returns floor(horizon / step) + 1 samples on the uniform time grid that
\* starts at 0 and ends at the horizon, with the success flag true.
C12_RejillaUniforme ==
    (op = "simular" /\ ret.tipo = "resultado" /\ Horizonte > 0 /\ Paso > 0) =>
        LET n == (Horizonte \div Paso) + 1
            ts == ret.val.tiempo
        IN  /\ Len(ts) = n
            /\ Len(ret.val.volumen) = n /\ Len(ret.val.nutrientes) = n
            /\ Len(ret.val.lemna) = n /\ Len(ret.val.oxigeno) = n
            /\ ts[1] = 0
            /\ ts[Len(ts)] = Horizonte
            /\ \A i \in 1..Len(ts) :
                  Len(ts) > 1 => ts[i] = ((i - 1) * Horizonte) \div (Len(ts) - 1)
            /\ ret.val.exito = TRUE

\* C13: the percentages of obtener_metricas() come from the first and last
\* samples of the stored result: (first - last) / first * 100 for nutrients
\* and biomass, (last - first) / first * 100 for oxygen; a variable whose
\* first sample is exactly 0 gets the percentage 0, not NaN, and the call
\* raises nothing.
C13_PorcentajesDeMetricas ==
    (op = "obtener_metricas" /\ resultado # None) =>
        LET i == PrimeraMuestra(resultado)
            f == UltimaMuestra(resultado)
            m == ret.val
        IN  /\ ret.tipo = "metricas"
            /\ (EstadoFinito(i) /\ EstadoFinito(f)) =>
                  /\ i[2] # 0 => m.reduccion_nutrientes_pct = ((i[2] - f[2]) * 100) \div i[2]
                  /\ i[3] # 0 => m.reduccion_lemna_pct = ((i[3] - f[3]) * 100) \div i[3]
                  /\ i[4] # 0 => m.mejora_oxigeno_pct = ((f[4] - i[4]) * 100) \div i[4]
            /\ i[2] = 0 => m.reduccion_nutrientes_pct = 0
            /\ i[3] = 0 => m.reduccion_lemna_pct = 0
            /\ i[4] = 0 => m.mejora_oxigeno_pct = 0

\* Metrics of a run that started with no oxygen and no nutrients and ended
\* with some of both, the biomass percentage not zero.
C13_Testigo ==
    /\ op = "obtener_metricas" /\ ret.tipo = "metricas"
    /\ resultado.oxigeno[1] = 0 /\ resultado.nutrientes[1] = 0
    /\ UltimaMuestra(resultado)[4] # 0 /\ UltimaMuestra(resultado)[2] # 0
    /\ ret.val.mejora_oxigeno_pct = 0
    /\ ret.val.reduccion_lemna_pct # 0

\* C14: porcentaje_absorcion_lemna() returns a number from 0 to 100 (here in
\* units of 0.01 percent), and neither it nor obtener_lemna_actual() changes
\* the current state or the stored result.
C14_OcupacionAcotada ==
    /\ (op = "porcentaje_absorcion_lemna") =>
          /\ ret.tipo = "float"
          /\ FMenorIgual(0, ret.val) /\ FMenorIgual(ret.val, 10000)
          /\ estado_actual = previo /\ resultado = res_previo
    /\ (op = "obtener_lemna_actual") =>
          /\ estado_actual = previo /\ resultado = res_previo

\* The overrides of the scenario the instance was constructed with.
Sobrescritos == IF "parametros" \in DOMAIN escenario THEN DOMAIN escenario.parametros ELSE {}

\* C15: construction merges the scenario's overrides into the parameters,
\* the override winning: a parameter named by the scenario has the
\* scenario's value, any other has the caller's, and the initial state and
\* the baseline oxygen are built from the merged initial stocks.
C15_SobrescrituraGana ==
    /\ \A k \in Sobrescritos : params[k] = escenario.parametros[k]
    /\ \A k \in (DOMAIN parametros_dados) \ Sobrescritos : params[k] = parametros_dados[k]
    /\ construido = << params.volumen_inicial, params.nutrientes_inicial,
                       Max(params.lemna_inicial, 1), params.oxigeno_inicial >>
    /\ estado_inicial = construido
    /\ oxigeno_base = params.oxigeno_inicial

\* A removal on an instance whose scenario overrides the caller's initial
\* oxygen and nutrients with other values: the oxygen goes back to the
\* scenario's value.
C15_Testigo ==
    /\ {"oxigeno_inicial", "nutrientes_inicial"} \subseteq Sobrescritos
    /\ parametros_dados.oxigeno_inicial # escenario.parametros.oxigeno_inicial
    /\ parametros_dados.nutrientes_inicial # escenario.parametros.nutrientes_inicial
    /\ construido[2] = escenario.parametros.nutrientes_inicial
    /\ op = "remover_lemna_total" /\ op_previo = "simular"
    /\ previo[4] # oxigeno_base
    /\ estado_actual[4] = escenario.parametros.oxigeno_inicial

\* The instance was constructed from a mapping the parameter store returns.
DelAlmacen == obtener_parametros(parametros_dados) = [tipo |-> "params", val |-> parametros_dados]

\* C16: an instance constructed from the configuration store (parameters
\* from obtener_parametros, scenario from obtener_escenario or
\* crear_escenario_personalizado) has its initial volume, nutrients, biomass
\* and oxygen and its horizon inside the validated ranges.
C16_FueraDeRangoRechazado ==
    DelAlmacen =>
        /\ validar_parametros(params)
        /\ \A k \in 1..4 :
              LET nombre == << "volumen_inicial", "nutrientes_inicial",
                               "lemna_inicial", "oxigeno_inicial" >>[k]
              IN  /\ validaciones[nombre][1] <= construido[k]
                  /\ construido[k] <= validaciones[nombre][2]
        /\ validaciones.tiempo_simulacion[1] <= Horizonte
        /\ Horizonte <= validaciones.tiempo_simulacion[2]

\* The documented ranges: volume 5e11 to 1.2e12, nutrients 0.001 to 1.0,
\* biomass 0 to 5000, oxygen 0 to 12, horizon 0 to 200.
EnRangosDocumentados(p) ==
    /\ 5000 <= p.volumen_inicial /\ p.volumen_inicial <= 12000
    /\ 100 <= p.nutrientes_inicial /\ p.nutrientes_inicial <= 100000
    /\ 0 <= p.lemna_inicial /\ p.lemna_inicial <= 5000
    /\ 0 <= p.oxigeno_inicial /\ p.oxigeno_inicial <= 1200
    /\ 0 <= p.tiempo_simulacion /\ p.tiempo_simulacion <= 2000

\* C17: obtener_parametros accepts a parameter set exactly when its five
\* validated parameters are within the documented ranges, a horizon of 0 and
\* a nutrient concentration of 1.0 included.
C17_RangosDocumentados ==
    (op = "obtener_parametros") =>
        ((ret.tipo = "params") <=> EnRangosDocumentados(Update(PARAMETROS_DEFAULT, arg.v)))

\* C19: the mapping the caller passed to __init__ is as it was when passed,
\* and no operation on the instance changes its parameters or its scenario.
C19_ParametrosInmutables ==
    /\ [](parametros = parametros_dados)
    /\ [][ /\ params' = params
           /\ escenario' = escenario
           /\ parametros' = parametros ]_vars

\* An instance whose scenario overrides a parameter of the caller's mapping,
\* after two runs and two state-control calls.
C19_Testigo ==
    /\ Sobrescritos # {}
    /\ params # parametros
    /\ \E k \in Sobrescritos : parametros[k] # params[k]
    /\ nsim = 2 /\ nmut = 2
    /\ ult_sim = "ok"
    /\ estado_actual # construido

\* The batch has gone through its loop.
LoteTerminado == indice > Len(escenarios)

\* C20: ejecutar_todos attempts each listed scenario once and in list order,
\* a failed scenario is followed by the next one, and when the batch has
\* finished every listed scenario has been attempted and every one that
\* succeeded has its result and its metrics stored under its name.
C20_LoteContinua ==
    /\ Len(intentos) = indice - 1
    /\ Len(intentos) <= Len(escenarios)
    /\ \A k \in 1..Len(intentos) : intentos[k].nombre = escenarios[k]
    /\ LoteTerminado =>
          /\ Len(intentos) = Len(escenarios)
          /\ \A k \in 1..Len(intentos) :
                intentos[k].tipo # "error" =>
                    /\ intentos[k].nombre \in DOMAIN resultados
                    /\ intentos[k].nombre \in DOMAIN metricas
                    /\ resultados[intentos[k].nombre].exito = TRUE
                    /\ resultados[intentos[k].nombre].escenario
                          = ESCENARIOS[intentos[k].nombre].nombre
                    /\ \E j \in k..Len(intentos) :
                          /\ intentos[j].nombre = intentos[k].nombre
                          /\ intentos[j].tipo # "error"
                          /\ resultados[intentos[k].nombre] = intentos[j].val.resultado
                          /\ metricas[intentos[k].nombre] = intentos[j].val.metricas

\* A finished batch of three in which a numerical failure and an unknown
\* name were followed by a scenario that ran and was stored.
C20_Testigo ==
    /\ LoteTerminado /\ Len(escenarios) = 3
    /\ intentos[1].tipo = "error" /\ intentos[1].val = "RuntimeError"
    /\ intentos[2].tipo = "error" /\ intentos[2].val = "ValueError"
    /\ intentos[3].tipo # "error"
    /\ DOMAIN resultados = { escenarios[3] }
    /\ Len(resultados[escenarios[3]].tiempo) > 1

\* What instance j of the pair holds, its dicts and arrays read through
\* their addresses.
Vista(j) ==
    [ params |-> mem[modelos[j].params].v,
      escenario |-> Desreferenciar(mem, mem[modelos[j].escenario].v),
      estado_inicial |-> mem[modelos[j].estado_inicial].v,
      estado_actual |-> mem[modelos[j].estado_actual].v,
      oxigeno_base |-> modelos[j].oxigeno_base,
      resultado |-> modelos[j].resultado ]

\* C18: of two instances constructed from the same parameter mapping and
\* the same scenario descriptor, an operation on one leaves the current
\* state, initial state, stored result, parameters and scenario of the
\* other as they were, whatever the order of the operations on the two.
C18_InstanciasIndependientes ==
    [][ \A j \in 1..2 : j # actor' => Vista(j)' = Vista(j) ]_vars

\* Both instances have moved away from the state they were constructed
\* with, to different states, the last operation being an in-place write;
\* their scenario dicts still hold the same 'parametros' object.
C18_Testigo ==
    /\ npar = MaxPar
    /\ op \in { "remover_lemna_total", "agregar_lemna" } /\ ret = Devuelve("bool", TRUE)
    /\ Vista(1).estado_inicial = Vista(2).estado_inicial
    /\ Vista(1).estado_actual # Vista(1).estado_inicial
    /\ Vista(2).estado_actual # Vista(2).estado_inicial
    /\ Vista(1).estado_actual # Vista(2).estado_actual
    /\ modelos[1].estado_actual # modelos[2].estado_actual
    /\ mem[modelos[1].escenario].v.parametros = mem[modelos[2].escenario].v.parametros
    /\ (modelos[1].resultado = None) # (modelos[2].resultado = None)

\* The arguments of the last call of a rate function.
ParamsLlamada == arg.v.params
EscenarioLlamada == arg.v.escenario
EstadoLlamada == arg.v.y
\* Occupancy of the carrying capacity by the biomass of that call.
OcupacionLlamada == calcular_porcentaje_capacidad(ParamsLlamada, Max(EstadoLlamada[3], 0))

\* C21: the nutrient uptake of the biomass is exactly zero when the biomass
\* is at most 1 ton and when the occupancy is 0.95 or more; it is positive
\* only for a biomass above 1 ton at an occupancy below 0.95. The nutrient
\* derivative of ecuaciones is then the one of the state with no biomass.
C21_ConsumoNuloSinLemnaOSaturada ==
    /\ op = "consumo_nutrientes_lemna" =>
          /\ (EstadoLlamada[3] <= 1 \/ OcupacionLlamada >= UMBRAL_SATURACION) => ret.val = 0
          /\ ret.val >= 0
          /\ ret.val > 0 => (EstadoLlamada[3] > 1 /\ OcupacionLlamada < UMBRAL_SATURACION)
    /\ (op = "ecuaciones" /\ (EstadoLlamada[3] <= 1 \/ OcupacionLlamada >= UMBRAL_SATURACION)) =>
          ret.val.dy[2] =
              ecuaciones(ParamsLlamada, EscenarioLlamada, [EstadoLlamada EXCEPT ![3] = 0])[2]

\* The uptake of a saturated biomass that has nutrients, water and a high
\* uptake rate, the same biomass absorbing under a larger capacity.
C21_Testigo ==
    /\ op = "consumo_nutrientes_lemna"
    /\ OcupacionLlamada >= UMBRAL_SATURACION
    /\ EstadoLlamada[3] > 1 /\ EstadoLlamada[2] > 0
    /\ ret.val = 0
    /\ \E p \in ParametrosTasas :
          consumo_nutrientes_lemna(p, EstadoLlamada[2], EstadoLlamada[3], EstadoLlamada[1]) > 0

\* C22: at an occupancy of 0.95 or more, whatever the oxygen concentration
\* and the parameters, the oxygen derivative is strictly lower than the one
\* of the same state evaluated at an occupancy of 0.94.
C22_SaturacionBajaOxigeno ==
    (op = "dinamica_oxigeno" /\ OcupacionLlamada >= UMBRAL_SATURACION) =>
        ret.val < dO_dt_con_ocupacion(ParamsLlamada, EstadoLlamada[4], EstadoLlamada[3],
                                      EstadoLlamada[2], 9400)

\* C23: with a positive biomass at an occupancy below 0.95 the oxygen
\* derivative is greater than the one of the same state with no biomass.
C23_LemnaMejoraOxigeno ==
    (op = "dinamica_oxigeno" /\ EstadoLlamada[3] > 0 /\ OcupacionLlamada < UMBRAL_SATURACION) =>
        ret.val > dinamica_oxigeno(ParamsLlamada, EstadoLlamada[4], 0, EstadoLlamada[2])

\* The growth rate with a constant mortality: biomass times (intrinsic rate
\* times nutrient limitation times capacity limitation, minus mortality).
crecimiento_con_mortalidad_constante(p, nutrientes_mgL, lemna_ton) ==
    LET Km == Get(p, "nutrientes_optimo_lemna", 5000)
        factor_nutrientes == (nutrientes_mgL * 1000) \div (nutrientes_mgL + Km)
        K == Max(Get(p, "capacidad_carga_lemna", 2000), 1)
        factor_capacidad == Max(0, 1000 - (lemna_ton * 1000) \div K)
        tasa_crecimiento == Get(p, "tasa_crecimiento_lemna", 300)
        tasa_mortalidad == Get(p, "tasa_mortalidad_lemna", 200)
        tasa_neta == ((((tasa_crecimiento * factor_nutrientes) \div 1000) * factor_capacidad) \div 1000)
                     - tasa_mortalidad
    IN  (lemna_ton * tasa_neta) \div 1000

\* C24: for a positive biomass the growth rate is biomass times (intrinsic
\* rate times N / (N + half-saturation) times max(0, 1 - biomass / capacity)
\* minus the mortality parameter), the mortality being that constant.
C24_CrecimientoConMortalidadConstante ==
    (op = "crecimiento_lemna" /\ EstadoLlamada[3] > 0) =>
        ret.val = crecimiento_con_mortalidad_constante(ParamsLlamada, EstadoLlamada[2],
                                                       EstadoLlamada[3])

\* The scenario of the call with no biomass-addition rate.
EscenarioSinAdicion ==
    [k \in (DOMAIN EscenarioLlamada) \ {"adicion_lemna"} |-> EscenarioLlamada[k]]

\* C25: under a scenario with a biomass-addition rate a > 0 the biomass
\* derivative exceeds by a the one under the same scenario with no addition.
C25_AdicionSumada ==
    (op = "ecuaciones" /\ Get(EscenarioLlamada, "adicion_lemna", 0) > 0) =>
        ret.val.dy[3] =
            ecuaciones(ParamsLlamada, EscenarioSinAdicion, EstadoLlamada)[3]
                + EscenarioLlamada.adicion_lemna

\* C26: whatever the state and the removal rate of the scenario, the biomass
\* derivative of ecuaciones is not below minus the biomass clamped at zero.
C26_RemocionAcotada ==
    op = "ecuaciones" =>
        \/ ret.val.dy[3] > 0 - Max(EstadoLlamada[3], 0)
        \/ (ret.val.dy[3] = 0 - Max(EstadoLlamada[3], 0) /\ ret.val.ulp_dL >= 0)

\* The efficiencies of the scenario of the call are fractions in [0, 1].
EficienciasEnRango ==
    /\ 0 <= EscenarioLlamada.eficiencia_tratamiento_puno
    /\ EscenarioLlamada.eficiencia_tratamiento_puno <= 100
    /\ 0 <= EscenarioLlamada.eficiencia_tratamiento_juliaca
    /\ EscenarioLlamada.eficiencia_tratamiento_juliaca <= 100

\* C27: the load is max(0, puno * (1 - eff_puno) + juliaca * (1 - eff_juliaca)
\* + otras), the mass of the other sources never reduced by an efficiency;
\* with efficiencies in [0, 1] it is not below that mass and a higher
\* efficiency of either plant never gives a higher load.
C27_CargaEfectiva ==
    op = "descarga_contaminantes" =>
        /\ ret.val =
              Max(0, ParamsLlamada.descarga_puno * (100 - EscenarioLlamada.eficiencia_tratamiento_puno)
                       + ParamsLlamada.descarga_juliaca
                            * (100 - EscenarioLlamada.eficiencia_tratamiento_juliaca)
                       + ParamsLlamada.descarga_otras * 100)
        /\ EficienciasEnRango =>
              /\ ret.val >= ParamsLlamada.descarga_otras * 100
              /\ \A mayor \in EficienciasTasas :
                    (EscenarioLlamada.eficiencia_tratamiento_puno <= mayor /\ mayor <= 100) =>
                        descarga_contaminantes(ParamsLlamada,
                            [EscenarioLlamada EXCEPT !.eficiencia_tratamiento_puno = mayor])
                          <= ret.val
              /\ \A mayor \in EficienciasTasas :
                    (EscenarioLlamada.eficiencia_tratamiento_juliaca <= mayor /\ mayor <= 100) =>
                        descarga_contaminantes(ParamsLlamada,
                            [EscenarioLlamada EXCEPT !.eficiencia_tratamiento_juliaca = mayor])
                          <= ret.val

\* The load of three positive masses with both plants at work: above the
\* mass of the other sources, below the untreated load.
C27_Testigo ==
    /\ op = "descarga_contaminantes"
    /\ EscenarioLlamada.eficiencia_tratamiento_puno = 95
    /\ EscenarioLlamada.eficiencia_tratamiento_juliaca = 50
    /\ ParamsLlamada.descarga_puno > 0 /\ ParamsLlamada.descarga_juliaca > 0
    /\ ParamsLlamada.descarga_otras > 0
    /\ ret.val > ParamsLlamada.descarga_otras * 100
    /\ ret.val < descarga_contaminantes(ParamsLlamada, ESCENARIOS.base)

\* The calls that neither run the integration nor reset the instance.
SinCorridaNiReset ==
    { "remover_lemna_total", "agregar_lemna", "obtener_metricas",
      "obtener_lemna_actual", "porcentaje_absorcion_lemna" }

\* C28: a call of remover_lemna_total, agregar_lemna or an accessor leaves
\* every sample of the stored result as it was, and obtener_metricas
\* returns the metrics of the stored result, whatever the current state
\* has become since the run.
C28_ResultadoSinAlias ==
    /\ []((op = "obtener_metricas" /\ ret.tipo = "metricas") =>
              ret.val = Metricas(resultado, params))
    /\ [][op' \in SinCorridaNiReset => resultado' = resultado]_vars

\* Metrics asked for after a run and a write into the current state: they
\* are those of the run, whose last sample the current state has left.
C28_Testigo ==
    /\ op = "obtener_metricas" /\ ret.tipo = "metricas"
    /\ op_previo \in { "remover_lemna_total", "agregar_lemna" }
    /\ Horizonte > 0 /\ completo
    /\ estado_actual # UltimaMuestra(resultado)
    /\ ret.val.lemna_final = UltimaMuestra(resultado)[3]
    /\ ret.val.lemna_final # estado_actual[3]

\* C29: the scenario names with a stored result are those with stored
\* metrics, and an ejecutar_escenario that fails leaves both stores as they
\* were, for the scenario it was called with and for every other.
C29_ResultadosYMetricasParejos ==
    /\ [](DOMAIN resultados = DOMAIN metricas)
    /\ [][ret'.tipo = "error" => (resultados' = resultados /\ metricas' = metricas)]_vars

\* A scenario that succeeded and then failed: its entries are still those
\* of the run that succeeded.
C29_Testigo ==
    /\ op = "ejecutar_escenario" /\ ret.tipo = "error"
    /\ arg.v \in DOMAIN resultados /\ arg.v \in DOMAIN metricas
    /\ \E k \in 1..(Len(intentos) - 1) :
          /\ intentos[k].nombre = arg.v /\ intentos[k].tipo = "guardado"
          /\ resultados[arg.v] = intentos[k].val.resultado
          /\ metricas[arg.v] = intentos[k].val.metricas
    /\ intentos[Len(intentos)].nombre = arg.v

\* The preset table as the objects hold it.
TablaActual ==
    [n \in DOMAIN ESCENARIOS |-> Desreferenciar(mem, mem[DirPreset(n)].v)]

\* C30: whatever the caller writes into the descriptors it was handed, at
\* the top level or in their 'parametros' mapping, the preset table stays
\* as it was imported and obtener_escenario returns the preset for a known
\* name; for an unknown name it raises ValueError.
C30_CopiaPrivadaDelPreset ==
    /\ TablaActual = ESCENARIOS
    /\ op = "obtener_escenario" =>
          IF arg.v \in DOMAIN ESCENARIOS
          THEN ret = Devuelve("escenario", ESCENARIOS[arg.v])
          ELSE ret = Lanza("ValueError")

====
